---- MODULE Spec2Model ----
(***************************************************************************)
(* Model of simple-agent (src/agent.py): the key sanitizer, the tiered     *)
(* storage backend (save_data_to_storage / load_data_from_storage) and the *)
(* files and objects they leave behind; the fetch connectors' loops, the   *)
(* analytics reports, the question answering adapter and the command line. *)
(*                                                                         *)
(* Text is modelled as a sequence of characters; a character is a string   *)
(* of length one, or the name of a code point ("U+00E9") for the non-ASCII *)
(* characters the model needs.                                             *)
(***************************************************************************)
EXTENDS Integers, Sequences, FiniteSets, TLC

VARIABLES
    text,           \* sanitizer: the argument of sanitize_for_filename
    sanitized,      \* sanitizer: [done, out], out its return value once it ran
    s3_client,      \* TRUE when the module-level s3_client and S3_BUCKET_NAME are set
    now,            \* the wall clock read by datetime.now(), in seconds
    files,          \* local filesystem: path -> content (a sequence of JSON lexemes)
    s3,             \* remote store: <<bucket, key>> -> content
    last,           \* the last call: its arguments, what it attempted, what it returned
    hist,           \* the successful save_data_to_storage calls so far: what each targeted
                    \* (calls made directly, or by a fetch command)
    nsaves,         \* the number of save_data_to_storage calls so far
    run             \* the last call of analyze_data, ask_ai_question, fetch_*_data or
                    \* main: its arguments, what it printed, called and returned

vars == <<text, sanitized, s3_client, now, files, s3, last, hist, nsaves, run>>

Min(a, b) == IF a < b THEN a ELSE b

\* no call of analyze_data, ask_ai_question, fetch_*_data or main yet
NoRun == [op |-> "none"]

----------------------------------------------------------------------------
(* Characters and strings                                                  *)

LowerAscii ==
    {"a","b","c","d","e","f","g","h","i","j","k","l","m",
     "n","o","p","q","r","s","t","u","v","w","x","y","z"}
UpperAscii == {"Z"}
DigitChars == {"0","1","2","3","4","5","6","7","8","9"}
\* U+00E9 is e-acute, U+0130 is capital I with dot above: both satisfy
\* str.isalnum(); U+0307 is the combining dot that lower-casing U+0130 yields.
NonAsciiAlnum == {"U+00E9", "U+0130"}
NonAsciiChars == NonAsciiAlnum \cup {"U+0307"}

\* python: c.isalnum()
isalnum(c) == c \in LowerAscii \cup UpperAscii \cup DigitChars \cup NonAsciiAlnum

\* python: str.lower() of one character (U+0130 lower-cases to two code points)
lower_char(c) ==
    CASE c = "Z" -> <<"z">>
      [] c = "U+0130" -> <<"i", "U+0307">>
      [] OTHER -> <<c>>

RECURSIVE lower(_)
lower(s) == IF s = <<>> THEN <<>> ELSE lower_char(Head(s)) \o lower(Tail(s))

RECURSIVE lstrip(_, _)
lstrip(s, ch) ==
    IF s # <<>> /\ Head(s) = ch THEN lstrip(Tail(s), ch) ELSE s

RECURSIVE rstrip(_, _)
rstrip(s, ch) ==
    IF s # <<>> /\ s[Len(s)] = ch THEN rstrip(SubSeq(s, 1, Len(s) - 1), ch) ELSE s

\* python: s.strip(ch)
strip(s, ch) == rstrip(lstrip(s, ch), ch)

\* python: s[:n]
Slice(s, n) == SubSeq(s, 1, Min(n, Len(s)))

----------------------------------------------------------------------------
(* sanitize_for_filename                                                   *)

SanitizeMaxLen == 50

MapCharKeepsAll(c) == c

\* the generator expression: c if c.isalnum() or c in ['_', '-'] else '_'
MapChar(c) == IF isalnum(c) \/ c \in {"_", "-"} THEN c ELSE "_"

sanitize_for_filename(t) ==
    Slice(lower(strip([i \in 1..Len(t) |-> MapChar(t[i])], "_")), SanitizeMaxLen)

\* Inputs of the sanitizer: a run of 'a' of one of the lengths PadLens,
\* followed by every string of at most MaxCore characters of SanChars.
MaxCore == 2
SanChars == {"a", "Z", "7", "_", "-", " ", "U+00E9", "U+0130"}
PadLens == {0, SanitizeMaxLen - 2, SanitizeMaxLen - 1}

Pad(n) == [i \in 1..n |-> "a"]
Cores == UNION {[1..n -> SanChars] : n \in 0..MaxCore}
SanInputs == {Pad(n) \o c : n \in PadLens, c \in Cores}

----------------------------------------------------------------------------
(* Python values and their JSON text                                       *)
(*                                                                         *)
(* A Python value is a tagged record [t, v]. A dict is the sequence of its *)
(* <<key, value>> pairs in insertion order. JSON text is a sequence of     *)
(* lexemes: "[", "]", "{", "}", a key, or a literal.                       *)

Null == [t |-> "null", v |-> <<>>]
NaN == [t |-> "nan", v |-> <<>>]
PyInt(n) == [t |-> "int", v |-> n]
PyStr(s) == [t |-> "str", v |-> s]
\* a value json cannot serialize (TypeError: Object of type ... is not JSON serializable)
Obj == [t |-> "obj", v |-> <<>>]
Dict(pairs) == [t |-> "dict", v |-> pairs]
List(items) == [t |-> "list", v |-> items]

Lx(kind) == [lx |-> kind, v |-> Null]
Key(k) == [lx |-> "key", v |-> PyStr(k)]
Lit(x) == [lx |-> "lit", v |-> x]
Unserializable == Lx("TypeError")

RECURSIVE Flatten(_)
Flatten(ss) == IF ss = <<>> THEN <<>> ELSE Head(ss) \o Flatten(Tail(ss))

\* json.JSONEncoder.iterencode: the chunks in the order they are produced; a
\* value that cannot be serialized shows as the Unserializable chunk, where
\* the encoder raises.
RECURSIVE iterencode(_)
iterencode(x) ==
    CASE x.t = "list" ->
            <<Lx("[")>> \o Flatten([i \in 1..Len(x.v) |-> iterencode(x.v[i])]) \o <<Lx("]")>>
      [] x.t = "dict" ->
            <<Lx("{")>>
            \o Flatten([i \in 1..Len(x.v) |-> <<Key(x.v[i][1])>> \o iterencode(x.v[i][2])])
            \o <<Lx("}")>>
      [] x.t = "obj" -> <<Unserializable>>
      [] OTHER -> <<Lit(x)>>

Range(s) == {s[i] : i \in 1..Len(s)}

Serializable(x) == Unserializable \notin Range(iterencode(x))

\* json.dumps(data, ensure_ascii=False, indent=4), when it does not raise
json_dumps(x) == iterencode(x)

\* what json.dump(data, f) has written when the encoder raises: the chunks
\* before the value it cannot serialize
RECURSIVE WrittenBeforeError(_)
WrittenBeforeError(chunks) ==
    IF chunks = <<>> \/ Head(chunks) = Unserializable THEN <<>>
    ELSE <<Head(chunks)>> \o WrittenBeforeError(Tail(chunks))

ParseFail == [ok |-> FALSE, val |-> Null, rest |-> <<>>]

RECURSIVE ParseValue(_), ParseItems(_, _), ParseMembers(_, _)
ParseValue(s) ==
    IF s = <<>> THEN ParseFail
    ELSE CASE Head(s).lx = "lit" -> [ok |-> TRUE, val |-> Head(s).v, rest |-> Tail(s)]
           [] Head(s).lx = "[" -> ParseItems(Tail(s), <<>>)
           [] Head(s).lx = "{" -> ParseMembers(Tail(s), <<>>)
           [] OTHER -> ParseFail

ParseItems(s, acc) ==
    IF s = <<>> THEN ParseFail
    ELSE IF Head(s).lx = "]" THEN [ok |-> TRUE, val |-> List(acc), rest |-> Tail(s)]
    ELSE LET r == ParseValue(s)
         IN  IF r.ok THEN ParseItems(r.rest, Append(acc, r.val)) ELSE ParseFail

ParseMembers(s, acc) ==
    IF s = <<>> THEN ParseFail
    ELSE IF Head(s).lx = "}" THEN [ok |-> TRUE, val |-> Dict(acc), rest |-> Tail(s)]
    ELSE IF Head(s).lx # "key" THEN ParseFail
    ELSE LET r == ParseValue(Tail(s))
         IN  IF r.ok THEN ParseMembers(r.rest, Append(acc, <<Head(s).v.v, r.val>>))
             ELSE ParseFail

\* json.loads / json.load: [ok |-> FALSE] stands for json.JSONDecodeError
json_loads(s) ==
    LET r == ParseValue(s)
    IN  IF r.ok /\ r.rest = <<>> THEN [ok |-> TRUE, val |-> r.val]
        ELSE [ok |-> FALSE, val |-> Null]

----------------------------------------------------------------------------
(* pandas.DataFrame                                                        *)
(*                                                                         *)
(* A frame is its column labels in order and its rows, each row a function *)
(* from column label to value. The label "0" stands for the integer label  *)
(* 0 that pandas gives the single column of a list of scalars.             *)

EmptyFrame == [columns |-> <<>>, rows |-> <<>>]

\* df.empty
empty(df) == Len(df.columns) = 0 \/ Len(df.rows) = 0

IsScalar(x) == x.t \in {"null", "int", "str", "nan"}

DictKeys(d) == {d.v[i][1] : i \in 1..Len(d.v)}
\* a later duplicate of a key wins, as in a Python dict
DictGet(d, k) ==
    LET hits == {i \in 1..Len(d.v) : d.v[i][1] = k}
    IN  IF hits = {} THEN NaN ELSE d.v[CHOOSE i \in hits : \A j \in hits : j <= i][2]

RECURSIVE AddNew(_, _)
AddNew(cols, ks) ==
    IF ks = <<>> THEN cols
    ELSE IF \E i \in 1..Len(cols) : cols[i] = Head(ks) THEN AddNew(cols, Tail(ks))
    ELSE AddNew(Append(cols, Head(ks)), Tail(ks))

\* the columns of a list of dicts: the keys in order of first appearance
RECURSIVE ColumnsOf(_, _)
ColumnsOf(items, cols) ==
    IF items = <<>> THEN cols
    ELSE ColumnsOf(Tail(items),
                   AddNew(cols, [i \in 1..Len(Head(items).v) |-> Head(items).v[i][1]]))

RaisesValueError == [raised |-> TRUE, frame |-> EmptyFrame]

\* pd.DataFrame(data) on the value json.load returned
pd_DataFrame(data) ==
    CASE data.t = "null" -> [raised |-> FALSE, frame |-> EmptyFrame]
      [] data.t = "dict" ->
            \* a dict of scalars: "If using all scalar values, you must pass an index"
            IF data.v = <<>> THEN [raised |-> FALSE, frame |-> EmptyFrame]
            ELSE RaisesValueError
      [] data.t = "list" ->
            IF data.v = <<>> THEN [raised |-> FALSE, frame |-> EmptyFrame]
            ELSE IF \A i \in 1..Len(data.v) : data.v[i].t = "dict" THEN
                LET cols == ColumnsOf(data.v, <<>>)
                    colset == {cols[i] : i \in 1..Len(cols)}
                IN  [raised |-> FALSE,
                     frame |-> [columns |-> cols,
                                rows |-> [i \in 1..Len(data.v) |->
                                            [c \in colset |-> DictGet(data.v[i], c)]]]]
            ELSE IF \A i \in 1..Len(data.v) : IsScalar(data.v[i]) THEN
                [raised |-> FALSE,
                 frame |-> [columns |-> <<"0">>,
                            rows |-> [i \in 1..Len(data.v) |-> [c \in {"0"} |-> data.v[i]]]]]
            ELSE RaisesValueError
      [] OTHER -> RaisesValueError   \* "DataFrame constructor not properly called!"

----------------------------------------------------------------------------
(* Paths, keys and locators                                                *)

S3Scheme == <<"s", "3", ":", "/", "/">>
DATA_DIR == <<"d", "a", "t", "a">>
S3_BUCKET_NAME == <<"b", "k", "t">>
github == <<"g", "i", "t", "h", "u", "b">>
reddit == <<"r", "e", "d", "d", "i", "t">>
DotJson == <<".", "j", "s", "o", "n">>
DataSuffix == <<"_", "d", "a", "t", "a", "/">>

Digits == <<"0", "1", "2", "3", "4", "5", "6", "7", "8", "9">>

strftime_minutes(t) ==
    <<"2", "0", "2", "6", "1", "1", "0", "2", "1", "2", "0", "0">>

\* datetime.now().strftime('%Y%m%d%H%M%S') for the clock readings of the
\* model, the seconds 2026-11-02 12:00:00 + now
strftime(t) ==
    <<"2", "0", "2", "6", "1", "1", "0", "2", "1", "2", "0", "0">>
    \o <<Digits[((t \div 10) % 10) + 1], Digits[(t % 10) + 1]>>

\* f"{source_type}_{safe_query_details}_{timestamp}.json"
base_filename(source_type, safe, timestamp) ==
    source_type \o <<"_">> \o safe \o <<"_">> \o timestamp \o DotJson

\* f"{source_type}_data/" + base_filename
s3_key(source_type, base) == source_type \o DataSuffix \o base

\* f"s3://{S3_BUCKET_NAME}/{s3_key}"
s3_uri(key) == S3Scheme \o S3_BUCKET_NAME \o <<"/">> \o key

\* os.path.join(DATA_DIR, base_filename)
local_file_path(base) == DATA_DIR \o <<"/">> \o base

\* python: s.startswith(p)
startswith(s, p) == Len(s) >= Len(p) /\ SubSeq(s, 1, Len(p)) = p

\* python: s.replace(old, "")
RECURSIVE remove(_, _)
remove(s, old) ==
    IF s = <<>> THEN <<>>
    ELSE IF startswith(s, old) THEN remove(SubSeq(s, Len(old) + 1, Len(s)), old)
    ELSE <<Head(s)>> \o remove(Tail(s), old)

\* python: s.split(sep) for a one-character separator
RECURSIVE split(_, _)
split(s, sep) ==
    LET at == {i \in 1..Len(s) : s[i] = sep}
    IN  IF at = {} THEN <<s>>
        ELSE LET i == CHOOSE k \in at : \A j \in at : k <= j
             IN  <<SubSeq(s, 1, i - 1)>> \o split(SubSeq(s, i + 1, Len(s)), sep)

\* python: sep.join(parts)
RECURSIVE join(_, _)
join(parts, sep) ==
    IF parts = <<>> THEN <<>>
    ELSE IF Len(parts) = 1 THEN parts[1]
    ELSE parts[1] \o <<sep>> \o join(Tail(parts), sep)

----------------------------------------------------------------------------
(* save_data_to_storage                                                    *)

RemoteAlwaysTried(client) == TRUE

\* line 131: if s3_client and S3_BUCKET_NAME
RemoteConfigured(client) == client

LocalAlsoWritten(fs, path, data) == (path :> json_dumps(data)) @@ fs

\* line 141: return s3_uri leaves the local filesystem as it was
FilesAfterRemoteSuccess(fs, path, data) == fs

\* lines 132-146: the put succeeds when json.dumps does not raise and
\* put_object returns; any exception is caught and falls through
RemotePutSucceeds(data, put_ok) == Serializable(data) /\ put_ok

LocalFileTruncated(data, local_env, written) == <<>>

\* lines 150-151: what open(path, 'w') and json.dump leave in the file.
\* local_env is what the filesystem does: "ok", or "write_fails" after
\* `written` chunks (disk full, I/O error).
LocalFileContent(data, local_env, written) ==
    IF ~Serializable(data) THEN WrittenBeforeError(iterencode(data))
    ELSE IF local_env = "write_fails" THEN Slice(json_dumps(data), written)
    ELSE json_dumps(data)

\* lines 149-157: the local write returns the path unless an exception
\* was caught
LocalWriteSucceeds(data, local_env) == Serializable(data) /\ local_env = "ok"

\* The whole call. Returns what it returned (ok = FALSE for None), the
\* stores after it, and the writes it attempted, in order.
save_data_to_storage(data, source_type, query_details, clock, client, fs, remote, put_ok, local_env, written) ==
    LET timestamp == strftime(clock)
        safe_query_details == sanitize_for_filename(query_details)
        base == base_filename(source_type, safe_query_details, timestamp)
        key == s3_key(source_type, base)
        path == local_file_path(base)
        info == [source_type |-> source_type, safe |-> safe_query_details,
                 timestamp |-> timestamp, data |-> data, local_path |-> path,
                 s3_uri |-> s3_uri(key)]
        tried == IF RemoteConfigured(client) THEN <<"s3.put_object", "s3.failed">> ELSE <<>>
    IN  IF RemoteConfigured(client) /\ RemotePutSucceeds(data, put_ok) THEN
            [ok |-> TRUE, ret |-> s3_uri(key), tier |-> "s3",
             files |-> FilesAfterRemoteSuccess(fs, path, data),
             s3 |-> (<<S3_BUCKET_NAME, key>> :> json_dumps(data)) @@ remote,
             trace |-> <<"s3.put_object", "s3.ok">>] @@ info
        ELSE IF local_env = "open_fails" THEN
            [ok |-> FALSE, ret |-> <<>>, tier |-> "none",
             files |-> fs, s3 |-> remote,
             trace |-> tried \o <<"open", "local.failed">>] @@ info
        ELSE
            [ok |-> LocalWriteSucceeds(data, local_env),
             ret |-> IF LocalWriteSucceeds(data, local_env) THEN path ELSE <<>>,
             tier |-> IF LocalWriteSucceeds(data, local_env) THEN "local" ELSE "none",
             files |-> (path :> LocalFileContent(data, local_env, written)) @@ fs,
             s3 |-> remote,
             trace |-> tried \o <<"open", "json.dump",
                         IF LocalWriteSucceeds(data, local_env)
                         THEN "local.ok" ELSE "local.failed">>] @@ info

----------------------------------------------------------------------------
(* load_data_from_storage                                                  *)

\* lines 177-179 and 194-196: json.load then pd.DataFrame, every exception
\* caught and turned into pd.DataFrame()
FrameOfContent(content) ==
    LET j == json_loads(content)
    IN  IF ~j.ok THEN EmptyFrame
        ELSE IF pd_DataFrame(j.val).raised THEN EmptyFrame
        ELSE pd_DataFrame(j.val).frame

\* line 162: the dispatch on the locator's scheme
IsRemoteLocator(storage_path) == startswith(storage_path, S3Scheme)

\* lines 168-170
path_parts(storage_path) == split(remove(storage_path, S3Scheme), "/")
BucketOf(storage_path) == path_parts(storage_path)[1]

KeyFirstPartOnly(storage_path) ==
    IF Len(path_parts(storage_path)) > 1 THEN path_parts(storage_path)[2] ELSE <<>>

KeyOf(storage_path) == join(Tail(path_parts(storage_path)), "/")

\* the local path with the filename of a remote locator
LocalTwin(storage_path) ==
    local_file_path(path_parts(storage_path)[Len(path_parts(storage_path))])

FallsBackToLocal(storage_path, fs) ==
    IF LocalTwin(storage_path) \in DOMAIN fs
    THEN [frame |-> FrameOfContent(fs[LocalTwin(storage_path)]),
          trace |-> <<"os.path.exists", "open">>]
    ELSE [frame |-> EmptyFrame, trace |-> <<"os.path.exists">>]

\* lines 163-166: a remote locator without a configured client
RemoteUnconfigured(storage_path, fs) == [frame |-> EmptyFrame, trace |-> <<>>]

\* The whole call: the frame it returns and the backend calls it made.
\* get_ok is whether s3_client.get_object can reach the bucket.
load_data_from_storage(storage_path, client, fs, remote, get_ok) ==
    IF IsRemoteLocator(storage_path) THEN
        IF ~client THEN RemoteUnconfigured(storage_path, fs)
        ELSE IF BucketOf(storage_path) = <<>> \/ KeyOf(storage_path) = <<>> THEN
            [frame |-> EmptyFrame, trace |-> <<>>]
        ELSE IF get_ok /\ <<BucketOf(storage_path), KeyOf(storage_path)>> \in DOMAIN remote THEN
            [frame |-> FrameOfContent(remote[<<BucketOf(storage_path), KeyOf(storage_path)>>]),
             trace |-> <<"s3.get_object">>]
        ELSE [frame |-> EmptyFrame, trace |-> <<"s3.get_object">>]
    ELSE
        IF storage_path \notin DOMAIN fs THEN
            [frame |-> EmptyFrame, trace |-> <<"os.path.exists">>]
        ELSE [frame |-> FrameOfContent(fs[storage_path]),
              trace |-> <<"os.path.exists", "open">>]

----------------------------------------------------------------------------
(* The inputs of the model                                                 *)

MaxSaves == 1       \* calls of save_data_to_storage in one behaviour of Spec
MaxWrites == 2      \* calls of save_data_to_storage in one behaviour of WriteSpec
MaxClock == 1       \* the clock reads 0..MaxClock seconds past 12:00:00

Field(k, x) == <<k, x>>
RepoA == Dict(<<Field("name", PyStr(<<"A">>)), Field("stars", PyInt(5)),
                Field("description", Null)>>)
RepoB == Dict(<<Field("name", PyStr(<<"B">>)), Field("stars", PyInt(9)),
                Field("description", PyStr(<<"U+00E9">>))>>)
RepoBad == Dict(<<Field("name", PyStr(<<"C">>)), Field("stars", Obj),
                  Field("description", Null)>>)

Collections == {List(<<RepoA, RepoB>>), List(<<RepoB>>), List(<<RepoA, RepoBad>>)}
SourceTypes == {github, reddit}
\* "a b" and "a_b" sanitize to the same token
QueryLabels == {<<"a", " ", "b">>, <<"a", "_", "b">>}

\* What the backends do during one save: whether put_object returns (asked
\* only of a configured client), and whether the local write (reached only
\* when the put did not succeed) works, cannot open the file, or fails after
\* `written` chunks.
LocalEnvs ==
    {[local_env |-> "ok", written |-> 0], [local_env |-> "open_fails", written |-> 0],
     [local_env |-> "write_fails", written |-> 0],
     [local_env |-> "write_fails", written |-> 2]}
SaveEnvs(client) ==
    {[put_ok |-> FALSE] @@ e : e \in LocalEnvs}
    \cup (IF client THEN {[put_ok |-> TRUE, local_env |-> "ok", written |-> 0]} ELSE {})

\* Files that save_data_to_storage did not write, which analyze and ask may
\* be pointed at: [1], 5, {"name": 1} and an unterminated array.
ForeignFiles ==
    (<<"f", "1">> :> json_dumps(List(<<PyInt(1)>>)))
    @@ (<<"f", "2">> :> json_dumps(PyInt(5)))
    @@ (<<"f", "3">> :> json_dumps(Dict(<<Field("name", PyInt(1))>>)))
    @@ (<<"f", "4">> :> <<Lx("[")>>)

NoObjects == [k \in {} |-> <<>>]

\* the other tier's locator for the same filename
Twin(storage_path) ==
    IF IsRemoteLocator(storage_path) THEN LocalTwin(storage_path)
    ELSE LET base == split(storage_path, "/")[2]
         IN  s3_uri(s3_key(split(base, "_")[1], base))

\* Locators a load may be given: every local file, every remote object,
\* the same filenames in the other tier, a path that does not exist and a
\* remote locator without a key.
Locators ==
    LET mine == (DOMAIN files \ DOMAIN ForeignFiles)
                \cup {s3_uri(k[2]) : k \in DOMAIN s3}
    IN  mine \cup {Twin(p) : p \in mine} \cup DOMAIN ForeignFiles
        \cup {<<"f", "0">>, S3Scheme \o S3_BUCKET_NAME}

----------------------------------------------------------------------------
(* The state machine                                                       *)

\* op: the call; ok, storage_path: a save returned storage_path (not None),
\* or a load of storage_path returned a frame that is not empty; data: the
\* collection saved, or for a load that directly follows the successful
\* save that returned its locator (after_save), the collection of that save;
\* trace: the backend calls made, in order; client, local_env, get_ok: the
\* configuration and what the backends did; files_changed, s3_changed:
\* whether the call changed the local filesystem, the remote store.
Idle == [op |-> "init", ok |-> FALSE, storage_path |-> <<>>, data |-> Null,
         frame |-> EmptyFrame, trace |-> <<>>, get_ok |-> FALSE,
         source_type |-> <<>>, query_details |-> <<>>, local_path |-> <<>>,
         s3_uri |-> <<>>, client |-> FALSE, local_env |-> "", after_save |-> FALSE,
         files_changed |-> FALSE, s3_changed |-> FALSE]

Init ==
    /\ text = <<>>
    /\ sanitized = [done |-> FALSE, out |-> <<>>]
    /\ s3_client \in BOOLEAN
    /\ now \in 0..MaxClock
    /\ files = ForeignFiles
    /\ s3 = NoObjects
    /\ last = Idle
    /\ hist = {}
    /\ nsaves = 0
    /\ run = NoRun

\* lines 86-111: a new process initializes the S3 client, or fails to
InitServices ==
    /\ s3_client' = ~s3_client
    /\ UNCHANGED <<now, files, s3, last, hist, nsaves, text, sanitized, run>>

\* the wall clock advances by a second
Tick ==
    /\ now < MaxClock
    /\ now' = now + 1
    /\ UNCHANGED <<s3_client, files, s3, last, hist, nsaves, text, sanitized, run>>

\* lines 123-157, on a collection of `datas` under the backends `envs`
SaveOf(datas, envs) ==
    /\ nsaves' = nsaves + 1
    /\ \E data \in datas, source_type \in SourceTypes, query_details \in QueryLabels,
          env \in envs :
        \E r \in {save_data_to_storage(data, source_type, query_details, now, s3_client,
                                        files, s3, env.put_ok, env.local_env, env.written)} :
            /\ files' = r.files
            /\ s3' = r.s3
            /\ last' = [Idle EXCEPT !.op = "save", !.ok = r.ok, !.storage_path = r.ret,
                                    !.data = data, !.trace = r.trace,
                                    !.source_type = source_type,
                                    !.query_details = query_details,
                                    !.local_path = r.local_path, !.s3_uri = r.s3_uri,
                                    !.client = s3_client, !.local_env = env.local_env,
                                    !.files_changed = (r.files # files),
                                    !.s3_changed = (r.s3 # s3)]
            /\ hist' = IF r.ok
                       THEN hist \cup {[ret |-> r.ret, tier |-> r.tier,
                                        source_type |-> source_type,
                                        query_details |-> query_details,
                                        clock |-> now, data |-> data]}
                       ELSE hist
    /\ UNCHANGED <<s3_client, now, text, sanitized, run>>

Save ==
    /\ nsaves < MaxSaves
    /\ SaveOf(Collections, SaveEnvs(s3_client))

\* lines 160-200
Load ==
    /\ \E storage_path \in Locators :
        \E get_ok \in IF s3_client /\ IsRemoteLocator(storage_path) THEN BOOLEAN ELSE {FALSE} :
        \E r \in {load_data_from_storage(storage_path, s3_client, files, s3, get_ok)} :
            last' = [Idle EXCEPT !.op = "load", !.ok = ~empty(r.frame),
                                 !.storage_path = storage_path, !.frame = r.frame,
                                 !.trace = r.trace, !.get_ok = get_ok,
                                 !.client = s3_client,
                                 !.after_save = (last.op = "save" /\ last.ok
                                                 /\ last.storage_path = storage_path),
                                 !.data = IF last.op = "save" /\ last.ok
                                             /\ last.storage_path = storage_path
                                          THEN last.data ELSE Null]
    /\ UNCHANGED <<s3_client, now, files, s3, hist, nsaves, text, sanitized, run>>

\* One behaviour of Spec happens within one clock second, read in Init;
\* the clock advances in WriteSpec.
Next == InitServices \/ Save \/ Load

Spec == Init /\ [][Next]_vars

----------------------------------------------------------------------------
(* Repeated saves: up to MaxWrites calls, each of a serializable collection *)
(* with a working local filesystem, while the clock advances               *)

GoodCollections == {c \in Collections : Serializable(c)}

Persist ==
    /\ nsaves < MaxWrites
    /\ SaveOf(GoodCollections, {e \in SaveEnvs(s3_client) : e.local_env = "ok"})

WriteNext == Tick \/ Persist

WriteSpec == Init /\ [][WriteNext]_vars

----------------------------------------------------------------------------
(* The sanitizer on its own: one call on each input of SanInputs           *)

SanInit ==
    /\ text \in SanInputs
    /\ sanitized = [done |-> FALSE, out |-> <<>>]
    /\ s3_client = FALSE
    /\ now = 0
    /\ files = ForeignFiles
    /\ s3 = NoObjects
    /\ last = Idle
    /\ hist = {}
    /\ nsaves = 0
    /\ run = NoRun

\* line 120
Sanitize ==
    /\ ~sanitized.done
    /\ sanitized' = [done |-> TRUE, out |-> sanitize_for_filename(text)]
    /\ UNCHANGED <<text, s3_client, now, files, s3, last, hist, nsaves, run>>

SanNext == Sanitize

SanSpec == SanInit /\ [][SanNext]_vars

----------------------------------------------------------------------------
(* Claims about sanitize_for_filename (under SanSpec)                      *)

AsciiSafe == LowerAscii \cup DigitChars \cup {"_", "-"}
IsAscii(t) == \A i \in 1..Len(t) : t[i] \notin NonAsciiChars
LoweredAlnumOf(t) ==
    UNION {Range(lower_char(t[i])) : i \in {j \in 1..Len(t) : isalnum(t[j])}}
\* the characters of the input that are neither alphanumeric nor '_' nor '-'
Unsafe(t) == {t[i] : i \in 1..Len(t)} \ ({c \in SanChars : isalnum(c)} \cup {"_", "-"})

C10_NoEdgeUnderscore ==
    (sanitized.done /\ sanitized.out # <<>>) =>
        /\ sanitized.out[1] # "_"
        /\ sanitized.out[Len(sanitized.out)] # "_"

----------------------------------------------------------------------------
(* Claims about save_data_to_storage (under Spec)                          *)

Saved == last.op = "save"
Events == Range(last.trace)
RemoteTriedAndFailed == Saved /\ "s3.failed" \in Events
LocalTried == Saved /\ "open" \in Events
DataDirPrefix == DATA_DIR \o <<"/">>
\* the records of a collection as rows: one function from field to value each
RowsOf(data) ==
    [i \in 1..Len(data.v) |->
        [k \in DictKeys(data.v[i]) |->
            data.v[i].v[CHOOSE j \in 1..Len(data.v[i].v) : data.v[i].v[j][1] = k][2]]]

\* C1: when the remote tier is tried and fails and the local write is
\* possible, the save returns the local locator data/{filename} and the
\* file at that path holds the full JSON payload of the records.
C1_FallbackReturnsLocalFile ==
    (RemoteTriedAndFailed /\ last.local_env = "ok" /\ Serializable(last.data)) =>
        /\ last.ok
        /\ last.storage_path = last.local_path
        /\ startswith(last.storage_path, DataDirPrefix)
        /\ ~IsRemoteLocator(last.storage_path)
        /\ last.storage_path \in DOMAIN files
        /\ files[last.storage_path] = json_dumps(last.data)
        /\ json_loads(files[last.storage_path]) = [ok |-> TRUE, val |-> last.data]

\* C1 witness: a configured client whose put failed, and the save returned
\* a local path.
C1_Witness ==
    /\ RemoteTriedAndFailed /\ last.client
    /\ last.ok /\ last.storage_path \in DOMAIN files

\* C2 as stated: the local write is attempted only after a remote attempt
\* was configured, made and failed.
C2_LocalOnlyAfterFailedRemote ==
    LocalTried =>
        /\ last.client
        /\ Len(last.trace) >= 3
        /\ SubSeq(last.trace, 1, 3) = <<"s3.put_object", "s3.failed", "open">>

\* C2 amended: the local write is attempted only when no remote backend is
\* configured (and then no remote call is made) or after the remote
\* attempt was made and failed; it is never attempted after a remote
\* success, and the remote attempt, if any, ends before the local one starts.
C2_LocalOnlyWithoutRemoteSuccess ==
    Saved =>
        /\ LocalTried =>
            IF last.client
            THEN Len(last.trace) >= 3
                 /\ SubSeq(last.trace, 1, 3) = <<"s3.put_object", "s3.failed", "open">>
            ELSE last.trace[1] = "open" /\ "s3.put_object" \notin Events
        /\ "s3.ok" \in Events => ~LocalTried
        /\ LocalTried \/ "s3.ok" \in Events

\* C2 witness: a save without a configured remote backend went to the
\* local tier and succeeded.
C2_Witness == LocalTried /\ ~last.client /\ last.ok

\* C3: at most one tier ends with a successful write; when the remote put
\* succeeds no local write is attempted, the local filesystem is unchanged
\* and the locator s3://{bucket}/{sourceType}_data/{filename} is returned;
\* the returned locator names the tier whose write succeeded.
C3_OneTierWritten ==
    Saved =>
        /\ ~("s3.ok" \in Events /\ "local.ok" \in Events)
        /\ "s3.ok" \in Events =>
            /\ ~LocalTried /\ ~last.files_changed /\ last.ok
            /\ last.storage_path =
                 S3Scheme \o S3_BUCKET_NAME \o <<"/">> \o last.source_type \o DataSuffix
                 \o SubSeq(last.local_path, Len(DataDirPrefix) + 1, Len(last.local_path))
            /\ <<S3_BUCKET_NAME, KeyOf(last.storage_path)>> \in DOMAIN s3
        /\ "local.ok" \in Events =>
            /\ ~last.s3_changed /\ last.ok
            /\ last.storage_path = last.local_path
        /\ last.ok => ("s3.ok" \in Events \/ "local.ok" \in Events)
        /\ ~last.ok => ~last.s3_changed

\* C3 witness: the remote put succeeded and its locator was returned.
C3_Witness == Saved /\ "s3.ok" \in Events /\ IsRemoteLocator(last.storage_path)

\* C4 as stated: when both the remote and the local write fail, the save
\* returns None and leaves no new, empty or partial file behind.
C4_NothingLeftWhenBothFail ==
    (RemoteTriedAndFailed /\ LocalTried /\ "local.failed" \in Events) =>
        /\ ~last.ok /\ last.storage_path = <<>>
        /\ ~last.files_changed /\ ~last.s3_changed

----------------------------------------------------------------------------
(* Claims about load_data_from_storage (under Spec)                        *)

Loaded == last.op = "load"
RemoteLoad == Loaded /\ IsRemoteLocator(last.storage_path)
LocalLoad == Loaded /\ ~IsRemoteLocator(last.storage_path)
RemoteDown == ~last.client \/ ~last.get_ok
ObjectKey(loc) == <<BucketOf(loc), KeyOf(loc)>>
Exists(loc) == IF IsRemoteLocator(loc) THEN ObjectKey(loc) \in DOMAIN s3 ELSE loc \in DOMAIN files
Content(loc) == IF IsRemoteLocator(loc) THEN s3[ObjectKey(loc)] ELSE files[loc]
\* the persisted format: a JSON array of flat objects
IsTabular(content) ==
    /\ json_loads(content).ok
    /\ json_loads(content).val.t = "list"
    /\ \A i \in 1..Len(json_loads(content).val.v) :
          LET item == json_loads(content).val.v[i]
          IN  item.t = "dict" /\ \A j \in 1..Len(item.v) : IsScalar(item.v[j][2])

\* C5: a load of the locator a save just returned, with the backend as the
\* save left it, yields exactly the saved records: the same number, in the
\* same order, each with the same fields and values.
C5_RoundTrip ==
    (Loaded /\ last.after_save /\ (RemoteLoad => ~RemoteDown)) =>
        /\ last.frame.rows = RowsOf(last.data)
        /\ Range(last.frame.columns) = DictKeys(last.data.v[1])

\* C5 witness: a remote locator returned by a save has been loaded back.
C5_Witness == RemoteLoad /\ last.after_save /\ ~RemoteDown /\ Len(last.frame.rows) = 2

\* C6 as stated: load returns an empty collection when the location is
\* remote and the backend is unconfigured or unreachable, when the object
\* or file does not exist, and when the payload does not parse as JSON or
\* is not of the tabular shape.
C6_EmptyOnEveryFailure ==
    Loaded =>
        /\ (RemoteLoad /\ RemoteDown) => empty(last.frame)
        /\ ~Exists(last.storage_path) => empty(last.frame)
        /\ (Exists(last.storage_path) /\ ~IsTabular(Content(last.storage_path)))
              => empty(last.frame)

\* C7: a load never falls back between tiers: a remote locator never
\* reads the local filesystem, a local locator never contacts the remote
\* backend, and a remote locator with the backend down or unconfigured
\* yields an empty collection whatever local files exist.
C7_NoFallbackOnLoad ==
    /\ RemoteLoad => Events \cap {"os.path.exists", "open"} = {}
    /\ LocalLoad => "s3.get_object" \notin Events
    /\ (RemoteLoad /\ RemoteDown) => empty(last.frame)

\* C7 witness: a remote locator was loaded without a configured client
\* while data/ held a loadable file of the same filename, and the result
\* was empty.
C7_Witness ==
    /\ RemoteLoad /\ ~last.client
    /\ LocalTwin(last.storage_path) \in DOMAIN files
    /\ ~empty(FrameOfContent(files[LocalTwin(last.storage_path)]))
    /\ empty(last.frame)

----------------------------------------------------------------------------
(* Claims about repeated saves (under WriteSpec)                           *)

SameName(g, h) ==
    /\ g.tier = h.tier
    /\ g.source_type = h.source_type
    /\ sanitize_for_filename(g.query_details) = sanitize_for_filename(h.query_details)
    /\ g.clock = h.clock

----------------------------------------------------------------------------
(* pandas and re as analyze_data uses them                                 *)

IsNA(x) == x.t \in {"null", "nan"}

\* 'c' in df.columns
HasColumn(df, c) == c \in Range(df.columns)

\* the elements of a set of row positions, in ascending order
RECURSIVE Ascending(_)
Ascending(S) ==
    IF S = {} THEN <<>>
    ELSE LET m == CHOOSE i \in S : \A j \in S : i <= j
         IN  <<m>> \o Ascending(S \ {m})

Perms(S) ==
    {p \in [1..Cardinality(S) -> S] :
        \A i, j \in 1..Cardinality(S) : i # j => p[i] # p[j]}

\* A descending sort with kind="mergesort" (stable): the rows idx by val
\* descending, equal values in their original order.
RECURSIVE argsort_mergesort(_, _)
argsort_mergesort(val, idx) ==
    IF idx = {} THEN <<>>
    ELSE LET m == CHOOSE i \in idx :
                    \A j \in idx : val[j] < val[i] \/ (val[j] = val[i] /\ i <= j)
         IN  <<m>> \o argsort_mergesort(val, idx \ {m})

\* A descending sort with kind="quicksort", the default of sort_values: numpy
\* does not define the order of equal values, so every descending order is
\* an outcome.
argsort_quicksort(val, idx) ==
    {p \in Perms(idx) : \A i, j \in 1..Cardinality(idx) : i < j => val[p[i]] >= val[p[j]]}

\* the dtype of a column of JSON values is numeric (int64, or float64 with
\* NaN for null) and not object
NumericColumn(df, column) ==
    /\ \A i \in 1..Len(df.rows) : df.rows[i][column].t = "int" \/ IsNA(df.rows[i][column])
    /\ \E i \in 1..Len(df.rows) : df.rows[i][column].t = "int"

\* df.nlargest(n, column), keep="first", of a numeric column: the positions
\* of the rows it returns, in order. With n >= len(df) pandas returns
\* sort_values(ascending=False).head(n); otherwise it selects the n largest
\* and orders them with a mergesort. Rows without a value come last.
nlargest(df, n, column) ==
    LET good == {i \in 1..Len(df.rows) : df.rows[i][column].t = "int"}
        nans == Ascending((1..Len(df.rows)) \ good)
        val == [i \in good |-> df.rows[i][column].v]
        orders == IF n >= Len(df.rows) THEN argsort_quicksort(val, good)
                  ELSE {argsort_mergesort(val, good)}
    IN  {Slice(o \o nans, n) : o \in orders}

\* re: the pattern is literal characters and ".", which matches any
\* character but a newline; "(" alone does not compile (re.error)
re_compiles(pat) == "(" \notin Range(pat)

MatchesAt(pat, s, i) ==
    /\ i + Len(pat) - 1 <= Len(s)
    /\ \A k \in 1..Len(pat) :
        \/ pat[k] = s[i + k - 1]
        \/ pat[k] = "." /\ s[i + k - 1] # "\n"

\* Series.str.count(pat): len(re.findall(pat, s)), the matches found from
\* position i on, left to right and not overlapping (pat is not empty)
RECURSIVE str_count(_, _, _)
str_count(pat, s, i) ==
    IF i > Len(s) THEN 0
    ELSE IF MatchesAt(pat, s, i) THEN 1 + str_count(pat, s, i + Len(pat))
    ELSE str_count(pat, s, i + 1)

\* Series.fillna('') of one value
fillna(x) == IF IsNA(x) THEN <<>> ELSE x.v

----------------------------------------------------------------------------
(* analyze_data                                                            *)

unknown == <<"u", "n", "k", "n", "o", "w", "n">>

\* lines 326 and 352: nlargest(5, ...); lines 343 and 368: head(5)
TopN == 5
MentionsShown == 5

\* lines 324 and 350
RankColumn(source_type) == IF source_type = github THEN "stars" ELSE "score"

\* lines 335-336 and 360-361
TextColumns(source_type) ==
    IF source_type = github THEN <<"description", "readme_content">>
    ELSE <<"title", "selftext", "comments_sample">>

text_for_search(df, i, cols) ==
    join([k \in 1..Len(cols) |-> fillna(df.rows[i][cols[k]])], " ")

\* lines 324-330 and 350-356: the ranked report, top the positions in df
\* of the rows it prints, in the order printed
RankReport(df, source_type) ==
    IF ~HasColumn(df, RankColumn(source_type)) THEN
        {[raised |-> "", out |-> <<"Column not found">>, top |-> <<>>]}
    ELSE IF ~NumericColumn(df, RankColumn(source_type)) THEN
        {[raised |-> "TypeError", out |-> <<"Top 5">>, top |-> <<>>]}
    ELSE {[raised |-> "", out |-> <<"Top 5">>, top |-> t] :
            t \in nlargest(df, TopN, RankColumn(source_type))}

\* lines 332-347 and 358-372: the mention report, mentions the rows it
\* prints with the count printed for each, in the order printed
MentionReport(df, source_type, library_name) ==
    LET cols == TextColumns(source_type)
        rows == 1..Len(df.rows)
    IN  IF \E k \in 1..Len(cols) : ~HasColumn(df, cols[k]) THEN
            {[raised |-> "KeyError", out |-> <<"mentioning">>, mentions |-> <<>>]}
        ELSE IF \E i \in rows, k \in 1..Len(cols) :
                    ~IsNA(df.rows[i][cols[k]]) /\ df.rows[i][cols[k]].t # "str" THEN
            {[raised |-> "TypeError", out |-> <<"mentioning">>, mentions |-> <<>>]}
        ELSE IF ~re_compiles(lower(library_name)) THEN
            {[raised |-> "re.error", out |-> <<"mentioning">>, mentions |-> <<>>]}
        ELSE UNION {
            {[raised |-> "",
              out |-> IF o = <<>> THEN <<"mentioning", "None found">> ELSE <<"mentioning">>,
              mentions |-> Slice([k \in 1..Len(o) |-> [row |-> o[k], count |-> counts[o[k]]]],
                                 MentionsShown)] :
                o \in argsort_quicksort(counts, {i \in rows : counts[i] > 0})} :
            counts \in {[i \in rows |->
                           str_count(lower(library_name),
                                     lower(text_for_search(df, i, cols)), 1)]}}

\* The whole call, lines 316-374: what it printed, the two reports, and the
\* exception that left it, if any. library_name <<>> is None or ''.
analyze_data(df, source_type, library_name) ==
    IF empty(df) THEN
        {[raised |-> "", out |-> <<"No data to analyze">>, top |-> <<>>, mentions |-> <<>>]}
    ELSE IF source_type \notin {github, reddit} THEN
        {[raised |-> "", out |-> <<"Unknown source type">>, top |-> <<>>, mentions |-> <<>>]}
    ELSE UNION {
        IF r.raised # "" \/ library_name = <<>> THEN
            {[raised |-> r.raised, out |-> r.out, top |-> r.top, mentions |-> <<>>]}
        ELSE {[raised |-> m.raised, out |-> r.out \o m.out, top |-> r.top,
               mentions |-> m.mentions] :
                m \in MentionReport(df, source_type, library_name)} :
        r \in RankReport(df, source_type)}

----------------------------------------------------------------------------
(* The analytics on their own: one call of analyze_data                    *)

MaxRows == 6        \* records of a collection to rank
MaxPosts == 2       \* records of a collection to search for a term

FrameOf(records) == pd_DataFrame(List(records)).frame

NameOf(i) == PyStr(<<Digits[i + 1]>>)

\* every collection of up to maxlen records whose ranking field is drawn
\* from values
RankLists(field, values, maxlen) ==
    UNION {{[i \in 1..n |-> Dict(<<Field("name", NameOf(i)), Field(field, PyInt(v[i]))>>)] :
                v \in [1..n -> values]} : n \in 0..maxlen}

\* collections with a record without stars, with stars that are text, and
\* without the field
OddRepos ==
    {<<Dict(<<Field("name", NameOf(1)), Field("stars", PyInt(5))>>),
       Dict(<<Field("name", NameOf(2)), Field("stars", Null)>>),
       Dict(<<Field("name", NameOf(3)), Field("stars", PyInt(9))>>)>>,
     <<Dict(<<Field("name", NameOf(1)), Field("stars", PyStr(<<"9">>))>>)>>,
     <<Dict(<<Field("name", NameOf(1))>>)>>}

Post(title, selftext) ==
    Dict(<<Field("title", PyStr(title)), Field("score", PyInt(3)),
           Field("selftext", selftext), Field("comments_sample", PyStr(<<>>))>>)

Posts ==
    {Post(<<"Z">>, PyStr(<<"z", " ", "z">>)), Post(<<"a", "b">>, PyStr(<<>>)),
     Post(<<"z">>, Null), Post(<<"a">>, PyStr(<<"z">>))}

ReadmeRepo(description, readme_content) ==
    Dict(<<Field("name", NameOf(1)), Field("stars", PyInt(5)),
           Field("description", description),
           Field("readme_content", PyStr(readme_content))>>)

ReadmeRepos == {ReadmeRepo(Null, <<"z">>), ReadmeRepo(PyStr(<<"z">>), <<"Z", "b">>)}

ListsOf(records, maxlen) == UNION {[1..n -> records] : n \in 0..maxlen}

Terms == {<<"z">>, <<"Z">>, <<"a", ".">>, <<"(">>}

AnalyzeInputs ==
    {[df |-> FrameOf(c), source_type |-> github, library_name |-> <<>>] :
        c \in RankLists("stars", {5, 9}, MaxRows) \cup OddRepos}
    \cup {[df |-> FrameOf(c), source_type |-> t, library_name |-> <<>>] :
            c \in RankLists("score", {0 - 1, 3}, 2), t \in {reddit, github, unknown}}
    \cup {[df |-> FrameOf(c), source_type |-> reddit, library_name |-> term] :
            c \in ListsOf(Posts, MaxPosts), term \in Terms}
    \cup {[df |-> FrameOf(c), source_type |-> github, library_name |-> term] :
            c \in ListsOf(ReadmeRepos, MaxPosts) \cup {<<RepoA, RepoB>>}, term \in Terms}

\* the storage backend is not touched
storage == <<text, sanitized, s3_client, now, files, s3, last, hist, nsaves>>

StorageIdle ==
    /\ text = <<>>
    /\ sanitized = [done |-> FALSE, out |-> <<>>]
    /\ s3_client = FALSE
    /\ now = 0
    /\ files = ForeignFiles
    /\ s3 = NoObjects
    /\ last = Idle
    /\ hist = {}
    /\ nsaves = 0

AnalyzeInit ==
    /\ StorageIdle
    /\ run = NoRun

\* lines 316-374
Analyze ==
    /\ run.op = "none"
    /\ \E inp \in AnalyzeInputs :
        \E r \in analyze_data(inp.df, inp.source_type, inp.library_name) :
            run' = [op |-> "analyze_data", df |-> inp.df, source_type |-> inp.source_type,
                    library_name |-> inp.library_name] @@ r
    /\ UNCHANGED storage

AnalyzeNext == Analyze

AnalyzeSpec == AnalyzeInit /\ [][AnalyzeNext]_vars

----------------------------------------------------------------------------
(* Claims about analyze_data (under AnalyzeSpec)                           *)

Analyzed == run.op = "analyze_data"

\* the ranked report was printed
Ranked == Analyzed /\ "Top 5" \in Range(run.out) /\ run.raised # "TypeError"

RankValue(i) == run.df.rows[i][RankColumn(run.source_type)]

\* C11 as stated: for a collection that carries the ranking field, the
\* ranked report lists min(5, |collection|) records, sorted descending by
\* that field, and records with equal values appear in their original
\* order.
C11_RankedStable ==
    Ranked =>
        /\ Len(run.top) = Min(TopN, Len(run.df.rows))
        /\ \A i, j \in 1..Len(run.top) :
            (i < j /\ RankValue(run.top[i]).t = "int" /\ RankValue(run.top[j]).t = "int") =>
                /\ RankValue(run.top[i]).v >= RankValue(run.top[j]).v
                /\ RankValue(run.top[i]).v = RankValue(run.top[j]).v => run.top[i] < run.top[j]

\* the mention report was printed
Mentioned == Analyzed /\ run.library_name # <<>> /\ "mentioning" \in Range(run.out) /\ run.raised = ""

\* the occurrences of term in s from position i on, as python's s.count(term)
RECURSIVE Occurrences(_, _, _)
Occurrences(term, s, i) ==
    IF i + Len(term) - 1 > Len(s) THEN 0
    ELSE IF SubSeq(s, i, i + Len(term) - 1) = term THEN 1 + Occurrences(term, s, i + Len(term))
    ELSE Occurrences(term, s, i + 1)

\* the case-insensitive occurrence count of the term in the text fields of row i
CountOf(i) ==
    Occurrences(lower(run.library_name),
                lower(text_for_search(run.df, i, TextColumns(run.source_type))), 1)

\* C12 as stated: the mention report contains no record whose
\* case-insensitive occurrence count of the term is 0, its records are
\* sorted descending by count, and records with equal counts keep their
\* original order.
C12_MentionsExact ==
    Mentioned =>
        /\ \A k \in 1..Len(run.mentions) : CountOf(run.mentions[k].row) > 0
        /\ \A i, j \in 1..Len(run.mentions) :
            i < j =>
                /\ CountOf(run.mentions[i].row) >= CountOf(run.mentions[j].row)
                /\ CountOf(run.mentions[i].row) = CountOf(run.mentions[j].row)
                    => run.mentions[i].row < run.mentions[j].row

----------------------------------------------------------------------------
(* ask_ai_question and the choice of its context                           *)

\* python: c.isspace()
IsSpace(c) == c \in {" ", "\n", "\t"}

\* python: s.strip()
strip_ws(s) ==
    LET keep == {i \in 1..Len(s) : ~IsSpace(s[i])}
    IN  IF keep = {} THEN <<>>
        ELSE SubSeq(s, CHOOSE i \in keep : \A j \in keep : i <= j,
                       CHOOSE i \in keep : \A j \in keep : j <= i)

\* line 392
max_chars_for_context == 4000

\* What qa_pipeline(question=..., context=...) does: Raises, or returns a
\* value, for a working pipeline a dict with 'answer' and 'score'.
Raises == [t |-> "raise", v |-> <<>>]
PyFloat(n) == [t |-> "float", v |-> n]

PipelineFailsOnlyByRaising(result) == result = Raises

\* lines 397-400 raise: the call itself, result['answer'] (no such key,
\* or a result that is not a dict), or the format of the score
PipelineFails(result) ==
    \/ result = Raises
    \/ result.t # "dict"
    \/ "answer" \notin DictKeys(result)
    \/ ("score" \in DictKeys(result) /\ DictGet(result, "score").t \notin {"float", "int"})

Unavailable == [kind |-> "unavailable", text |-> Null]
Insufficient == [kind |-> "insufficient information", text |-> Null]
EncounteredError == [kind |-> "encountered an error", text |-> Null]

\* The whole call, lines 377-404. pipeline is whether qa_pipeline is set;
\* context_text is a Python value. Returns what it returned, whether it
\* called the pipeline and the context it passed.
ask_ai_question(question, context_text, pipeline, result) ==
    IF ~pipeline THEN
        [ret |-> Unavailable, invoked |-> FALSE, passed |-> <<>>]
    ELSE IF context_text.t # "str" \/ context_text.v = <<>>
            \/ Len(strip_ws(context_text.v)) = 0 THEN
        [ret |-> Insufficient, invoked |-> FALSE, passed |-> <<>>]
    ELSE IF PipelineFails(result) THEN
        [ret |-> EncounteredError, invoked |-> TRUE,
         passed |-> Slice(context_text.v, max_chars_for_context)]
    ELSE
        [ret |-> [kind |-> "answer", text |-> DictGet(result, "answer")], invoked |-> TRUE,
         passed |-> Slice(context_text.v, max_chars_for_context)]

UsableIfPresent(entry, field) == field \in DOMAIN entry /\ ~IsNA(entry[field])

\* lines 497-504, one condition: 'f' in entry and pd.notna(entry['f']) and
\* entry['f'].strip()
Usable(entry, field) ==
    /\ field \in DOMAIN entry
    /\ ~IsNA(entry[field])
    /\ strip_ws(entry[field].v) # <<>>

\* the same condition raises AttributeError on a value without strip()
StripRaises(entry, field) ==
    field \in DOMAIN entry /\ ~IsNA(entry[field]) /\ entry[field].t # "str"

\* lines 497-505: the fields in the order they are tried
ContextFields == <<"readme_content", "selftext", "description", "title">>

\* lines 495-505: context_text, <<>> when no field is usable
RECURSIVE select_context(_, _)
select_context(entry, fields) ==
    IF fields = <<>> THEN [raised |-> "", context_text |-> <<>>]
    ELSE IF StripRaises(entry, Head(fields)) THEN
        [raised |-> "AttributeError", context_text |-> <<>>]
    ELSE IF Usable(entry, Head(fields)) THEN
        [raised |-> "", context_text |-> entry[Head(fields)].v]
    ELSE select_context(entry, Tail(fields))

NotAsked == [ret |-> Null, invoked |-> FALSE, passed |-> <<>>]

\* lines 494-511: the context of the entry, then the question or the
\* message that there is no context
ask_entry(question, entry, pipeline, result) ==
    LET c == select_context(entry, ContextFields)
    IN  IF c.raised # "" THEN [out |-> <<>>] @@ c @@ NotAsked
        ELSE IF c.context_text # <<>> THEN
            [out |-> <<>>] @@ c
            @@ ask_ai_question(question, PyStr(c.context_text), pipeline, result)
        ELSE [out |-> <<"No suitable text context found">>] @@ c @@ NotAsked

----------------------------------------------------------------------------
(* Question answering on its own: one call of ask_ai_question, directly or *)
(* from the ask command on one entry of a loaded collection                *)

Spaces(n) == [i \in 1..n |-> " "]

\* texts that reach, and pass, the limit of max_chars_for_context
LongTexts ==
    {Spaces(max_chars_for_context - 1) \o <<"a", "b">>,
     Spaces(max_chars_for_context) \o <<"a">>}

ContextValues ==
    {Null, PyInt(5)}
    \cup {PyStr(t) : t \in {<<>>, <<" ">>, <<"a">>, <<"\n", "a", " ">>} \cup LongTexts}

PipelineResults ==
    {Raises,
     Dict(<<Field("score", PyFloat(1)), Field("answer", PyStr(<<"a">>))>>),
     Dict(<<Field("answer", PyStr(<<"a">>))>>),
     Dict(<<Field("score", PyFloat(1))>>),
     Dict(<<Field("score", PyStr(<<"1">>)), Field("answer", PyStr(<<"a">>))>>),
     List(<<>>)}

Questions == {<<"q", "?">>}

\* the values of a text field: missing, empty, blank, or the text given
FieldValues(t) == {Null, PyStr(<<>>), PyStr(<<" ">>), PyStr(t)}

EntryOf(record) == FrameOf(<<record>>).rows[1]

RepoEntries ==
    {EntryOf(Dict(<<Field("name", PyStr(<<"n">>)), Field("description", d),
                    Field("stars", PyInt(5)), Field("readme_content", r)>>)) :
        d \in FieldValues(<<"d">>),
        r \in FieldValues(<<"r">>) \cup {PyStr(t) : t \in LongTexts}}

PostEntries ==
    {EntryOf(Dict(<<Field("title", t), Field("score", PyInt(3)), Field("selftext", b)>>)) :
        t \in FieldValues(<<"t">>), b \in FieldValues(<<"s">>)}

\* an entry whose description is a number, and one without any text field
OddEntries ==
    {EntryOf(Dict(<<Field("name", PyStr(<<"n">>)), Field("description", PyInt(5)),
                    Field("readme_content", PyStr(<<>>))>>)),
     EntryOf(Dict(<<Field("name", PyStr(<<"n">>))>>))}

AskInit ==
    /\ StorageIdle
    /\ run = NoRun

\* lines 377-404, called on its own
AskAI ==
    /\ run.op = "none"
    /\ \E question \in Questions, context \in ContextValues, pipeline \in BOOLEAN,
          result \in PipelineResults :
        run' = [op |-> "ask_ai_question", question |-> question, asked |-> TRUE,
                context |-> context, pipeline |-> pipeline, result |-> result]
               @@ ask_ai_question(question, context, pipeline, result)
    /\ UNCHANGED storage

\* lines 494-511, on one entry
AskEntry ==
    /\ run.op = "none"
    /\ \E question \in Questions, entry \in RepoEntries \cup PostEntries \cup OddEntries,
          pipeline \in BOOLEAN, result \in PipelineResults :
        \E r \in {ask_entry(question, entry, pipeline, result)} :
            run' = [op |-> "ask_entry", question |-> question, entry |-> entry,
                    asked |-> (r.raised = "" /\ r.context_text # <<>>),
                    context |-> PyStr(r.context_text),
                    pipeline |-> pipeline, result |-> result] @@ r
    /\ UNCHANGED storage

AskNext == AskAI \/ AskEntry

AskSpec == AskInit /\ [][AskNext]_vars

----------------------------------------------------------------------------
(* Claims about the context selection and ask_ai_question (under AskSpec)  *)

Selected == run.op = "ask_entry" /\ run.raised = ""

IsRepository(entry) == "readme_content" \in DOMAIN entry
IsPost(entry) == "selftext" \in DOMAIN entry

\* a candidate that is present, not empty and not whitespace-only
NonBlank(entry, field) ==
    /\ field \in DOMAIN entry
    /\ entry[field].t = "str"
    /\ \E i \in 1..Len(entry[field].v) : ~IsSpace(entry[field].v[i])

\* the first candidate of cands, in order, that is not blank; <<>> for none
RECURSIVE FirstNonBlank(_, _)
FirstNonBlank(entry, cands) ==
    IF cands = <<>> THEN <<>>
    ELSE IF NonBlank(entry, Head(cands)) THEN entry[Head(cands)].v
    ELSE FirstNonBlank(entry, Tail(cands))

\* C13 as stated: the context is the first candidate that is not empty and
\* not whitespace-only in the order README, description, name for a
\* repository record and body text, title for a post; none only when every
\* candidate is blank.
C13_NameIsLastResort ==
    Selected =>
        /\ IsRepository(run.entry) =>
            run.context_text
                = FirstNonBlank(run.entry, <<"readme_content", "description", "name">>)
        /\ IsPost(run.entry) =>
            run.context_text = FirstNonBlank(run.entry, <<"selftext", "title">>)

\* C13 amended: the context is the first candidate that is not empty and
\* not whitespace-only in the order README, description for a repository
\* record (the name is never used) and body text, title for a post; there
\* is no context, and ask_ai_question is not called, exactly when every
\* such candidate is missing or blank.
C13_FirstUsableField ==
    Selected =>
        /\ IsRepository(run.entry) =>
            run.context_text = FirstNonBlank(run.entry, <<"readme_content", "description">>)
        /\ IsPost(run.entry) =>
            run.context_text = FirstNonBlank(run.entry, <<"selftext", "title">>)
        /\ run.asked <=> run.context_text # <<>>
        /\ ~run.asked <=> "No suitable text context found" \in Range(run.out)

\* C13 witness: a repository entry with a whitespace-only README and a
\* description got its description as context and the question was asked.
C13_Witness ==
    /\ Selected /\ IsRepository(run.entry)
    /\ run.entry["readme_content"] = PyStr(<<" ">>)
    /\ run.entry["description"] = PyStr(<<"d">>)
    /\ run.context_text = <<"d">>
    /\ run.asked

AskedAI == run.op \in {"ask_ai_question", "ask_entry"} /\ run.asked

Blank(s) == \A i \in 1..Len(s) : IsSpace(s[i])

\* C14 as stated: when the context cut to its first 4000 characters is
\* empty or whitespace-only, ask_ai_question returns the insufficient
\* information result and does not invoke the pipeline; the pipeline is
\* never invoked with an empty or whitespace-only context.
C14_NoBlankContextInvoked ==
    AskedAI =>
        /\ (run.pipeline /\ run.context.t = "str"
            /\ Blank(Slice(run.context.v, max_chars_for_context)))
                => (run.ret = Insufficient /\ ~run.invoked)
        /\ run.invoked => ~Blank(run.passed)

\* C15: when the pipeline is initialized and its invocation fails (it
\* raises, or returns a result without an answer), ask_ai_question returns
\* the encountered-an-error result; when the pipeline is not initialized
\* it returns the unavailable result and the pipeline is not invoked.
C15_FailuresBecomeResults ==
    AskedAI =>
        /\ (run.invoked /\ (run.result = Raises \/ run.result.t # "dict"
                            \/ "answer" \notin DictKeys(run.result)))
                => run.ret = EncounteredError
        /\ ~run.pipeline => (run.ret = Unavailable /\ ~run.invoked)
        /\ run.ret \in {Unavailable, Insufficient, EncounteredError}
            \/ (run.ret.kind = "answer" /\ run.ret.text = DictGet(run.result, "answer")
                /\ run.ret.text.t = "str")

\* C15 witness: an initialized pipeline returned a result without an
\* answer and the call returned the encountered-an-error result.
C15_Witness ==
    /\ AskedAI /\ run.pipeline /\ run.invoked
    /\ run.result.t = "dict" /\ "answer" \notin DictKeys(run.result)
    /\ run.ret = EncounteredError

----------------------------------------------------------------------------
(* fetch_github_data and fetch_reddit_data                                 *)
(*                                                                         *)
(* A search is what the connector yields: its items in order, and whether  *)
(* the iterator raises once they are consumed (raises with no item is a    *)
(* search that fails at once). An item says what each of its lookups does. *)

\* line 239: readme_content[:200000]
ReadmeLimit == 200000

Ev(name, i) == [ev |-> name, i |-> i]

\* lines 215-225: the README of item i, "" when get_readme raises
\* GithubException or the decoding raises anything else
readme_content(item) == IF item.readme = "ok" THEN <<"r", " ", "z">> ELSE <<>>

\* lines 227-240
RepoRecord(item, i) ==
    Dict(<<Field("name", NameOf(i)), Field("description", Null),
           Field("stars", PyInt(item.stars)), Field("topics", List(<<>>)),
           Field("readme_content", PyStr(Slice(readme_content(item), ReadmeLimit)))>>)

\* line 237: repo.get_topics() is called outside the inner try
RecordRaises(item) == item.topics # "ok"

\* lines 212-242: item i and those after it; acc is repos_data so far
RECURSIVE github_loop(_, _, _, _, _)
github_loop(search, i, limit, acc, trace) ==
    IF i > Len(search.items) THEN
        [repos_data |-> acc, interrupted |-> search.raises, trace |-> trace]
    ELSE IF i - 1 >= limit THEN
        [repos_data |-> acc, interrupted |-> FALSE, trace |-> trace]
    ELSE IF RecordRaises(search.items[i]) THEN
        [repos_data |-> acc, interrupted |-> TRUE,
         trace |-> trace \o <<Ev("get_readme", i), Ev("get_topics", i)>>]
    ELSE github_loop(search, i + 1, limit, Append(acc, RepoRecord(search.items[i], i)),
                     trace \o <<Ev("get_readme", i), Ev("get_topics", i), Ev("append", i)>>)

NeverNothing(data) == FALSE

\* lines 245, 249, 252 and 300, 304, 307: `if not repos_data`
NothingFetched(data) == data = <<>>

\* what a fetch returns and leaves behind when it does not call
\* save_data_to_storage
NotSaved(fs, remote) == [ret |-> <<>>, saves |-> 0, saved |-> Null, files |-> fs, s3 |-> remote]

\* lines 256-257 and 311-313: the one call of save_data_to_storage
Persisted(r, data) ==
    [ret |-> r.ret, saves |-> 1, saved |-> List(data), files |-> r.files, s3 |-> r.s3]

\* The whole call, lines 203-257. g is whether the client is set; env is
\* what the storage backends do.
fetch_github_data(g, query, limit, search, clock, client, fs, remote, env) ==
    IF ~g THEN
        [repos_data |-> <<>>, interrupted |-> FALSE, trace |-> <<>>,
         out |-> <<"GitHub client not initialized">>] @@ NotSaved(fs, remote)
    ELSE LET l == github_loop(search, 1, limit, <<>>, <<Ev("search", 0)>>)
         IN  IF NothingFetched(l.repos_data) THEN
                 [out |-> IF l.interrupted THEN <<"Error during fetch">>
                          ELSE <<"No GitHub data fetched">>]
                 @@ l @@ NotSaved(fs, remote)
             ELSE [trace |-> Append(l.trace, Ev("save", 0)),
                   out |-> IF l.interrupted THEN <<"Error during fetch">> ELSE <<>>]
                  @@ l
                  @@ Persisted(save_data_to_storage(List(l.repos_data), github, query, clock,
                                                    client, fs, remote, env.put_ok,
                                                    env.local_env, env.written),
                               l.repos_data)

\* lines 270-281: up to 3 comments, none when anything raises
comments_sample(item) == IF item.comments = "ok" THEN <<"c">> ELSE <<>>

\* lines 283-295
PostRecord(item, i) ==
    Dict(<<Field("title", NameOf(i)), Field("score", PyInt(item.score)),
           Field("selftext", PyStr(<<>>)),
           Field("comments_sample", PyStr(comments_sample(item)))>>)

\* lines 269-297: subreddit.search yields at most limit items
RECURSIVE reddit_loop(_, _, _, _, _)
reddit_loop(search, i, limit, acc, trace) ==
    IF i > limit THEN [repos_data |-> acc, interrupted |-> FALSE, trace |-> trace]
    ELSE IF i > Len(search.items) THEN
        [repos_data |-> acc, interrupted |-> search.raises, trace |-> trace]
    ELSE reddit_loop(search, i + 1, limit, Append(acc, PostRecord(search.items[i], i)),
                     trace \o <<Ev("comments", i), Ev("append", i)>>)

\* The whole call, lines 260-313 (repos_data stands for posts_data).
fetch_reddit_data(r, subreddit_name, query, limit, search, clock, client, fs, remote, env) ==
    IF ~r THEN
        [repos_data |-> <<>>, interrupted |-> FALSE, trace |-> <<>>,
         out |-> <<"Reddit client not initialized">>] @@ NotSaved(fs, remote)
    ELSE LET l == reddit_loop(search, 1, limit, <<>>, <<Ev("search", 0)>>)
         IN  IF NothingFetched(l.repos_data) THEN
                 [out |-> IF l.interrupted THEN <<"Error during fetch">>
                          ELSE <<"No Reddit data fetched">>]
                 @@ l @@ NotSaved(fs, remote)
             ELSE [trace |-> Append(l.trace, Ev("save", 0)),
                   out |-> IF l.interrupted THEN <<"Error during fetch">> ELSE <<>>]
                  @@ l
                  @@ Persisted(save_data_to_storage(List(l.repos_data), reddit,
                                                    subreddit_name \o <<"_">> \o query, clock,
                                                    client, fs, remote, env.put_ok,
                                                    env.local_env, env.written),
                               l.repos_data)

----------------------------------------------------------------------------
(* The fetch connectors on their own: one call of fetch_github_data or of  *)
(* fetch_reddit_data                                                       *)

MaxResults == 2     \* items a search yields
MaxLimit == 2       \* the limit argument

GithubItems ==
    [readme : {"ok", "GithubException", "Exception"}, topics : {"ok", "GithubException"},
     stars : {5}]

RedditItems == [comments : {"ok", "Exception"}, score : {3}]

Searches(items) ==
    {[items |-> l, raises |-> b] : l \in ListsOf(items, MaxResults), b \in BOOLEAN}

\* the storage backends during a fetch: the put works, or it fails and the
\* local write works or cannot open the file
FetchEnvs(client) == {e \in SaveEnvs(client) : e.local_env \in {"ok", "open_fails"}}

FetchInit ==
    /\ text = <<>>
    /\ sanitized = [done |-> FALSE, out |-> <<>>]
    /\ s3_client \in BOOLEAN
    /\ now = 0
    /\ files = ForeignFiles
    /\ s3 = NoObjects
    /\ last = Idle
    /\ hist = {}
    /\ nsaves = 0
    /\ run = NoRun

\* lines 203-257
FetchGithub ==
    /\ run.op = "none"
    /\ \E g \in BOOLEAN, limit \in 0..MaxLimit, search \in Searches(GithubItems),
          env \in FetchEnvs(s3_client) :
        \E r \in {fetch_github_data(g, <<"q">>, limit, search, now, s3_client, files, s3, env)} :
            /\ files' = r.files
            /\ s3' = r.s3
            /\ run' = [op |-> "fetch_github_data", connector |-> g, limit |-> limit,
                       search |-> search] @@ [k \in DOMAIN r \ {"files", "s3"} |-> r[k]]
    /\ UNCHANGED <<text, sanitized, s3_client, now, last, hist, nsaves>>

\* lines 260-313
FetchReddit ==
    /\ run.op = "none"
    /\ \E r0 \in BOOLEAN, limit \in 0..MaxLimit, search \in Searches(RedditItems),
          env \in FetchEnvs(s3_client) :
        \E r \in {fetch_reddit_data(r0, <<"s">>, <<"q">>, limit, search, now, s3_client,
                                    files, s3, env)} :
            /\ files' = r.files
            /\ s3' = r.s3
            /\ run' = [op |-> "fetch_reddit_data", connector |-> r0, limit |-> limit,
                       search |-> search] @@ [k \in DOMAIN r \ {"files", "s3"} |-> r[k]]
    /\ UNCHANGED <<text, sanitized, s3_client, now, last, hist, nsaves>>

FetchNext == FetchGithub \/ FetchReddit

FetchSpec == FetchInit /\ [][FetchNext]_vars

----------------------------------------------------------------------------
(* Claims about the fetch connectors (under FetchSpec)                     *)

Fetched == run.op \in {"fetch_github_data", "fetch_reddit_data"}

\* the first n search results, n the limit
FirstN == 1..Min(run.limit, Len(run.search.items))

\* C17 as stated: in a github fetch, a failure while enriching one
\* repository (its README or its topics) does not abort the batch: every
\* other repository among the first n search results is normalized and is
\* in the collection handed to save_data_to_storage.
C17_BatchSurvivesEnrichmentFailure ==
    (run.op = "fetch_github_data" /\ run.connector) =>
        \A i \in FirstN :
            run.search.items[i].topics = "ok" =>
                /\ run.saves = 1
                /\ RepoRecord(run.search.items[i], i) \in Range(run.saved.v)

SaveEvents == {k \in 1..Len(run.trace) : run.trace[k].ev = "save"}

\* C19: a fetch calls save_data_to_storage at most once, after the loop
\* over the connector's items has ended; it does not call it and returns
\* None when the connector is not initialized or no record was collected,
\* so an empty collection is never saved; when an error interrupts the loop
\* after at least one record was collected, the records collected so far
\* are saved, once.
C19_PersistOnceAfterLoop ==
    Fetched =>
        /\ run.saves = Cardinality(SaveEvents) /\ run.saves <= 1
        /\ \A k \in SaveEvents : k = Len(run.trace)
        /\ (~run.connector \/ run.repos_data = <<>>) => (run.saves = 0 /\ run.ret = <<>>)
        /\ run.saves = 1 => (run.saved = List(run.repos_data) /\ run.repos_data # <<>>)
        /\ (run.interrupted /\ run.repos_data # <<>>) => run.saves = 1

\* C19 witness: an error interrupted the loop after a record was
\* collected and that record was saved.
C19_Witness ==
    /\ Fetched /\ run.interrupted
    /\ Len(run.repos_data) = 1
    /\ run.saves = 1 /\ run.saved = List(run.repos_data)
    /\ run.ret # <<>>

----------------------------------------------------------------------------
(* main: the command line                                                  *)

fetch == <<"f", "e", "t", "c", "h">>
analyze == <<"a", "n", "a", "l", "y", "z", "e">>
ask == <<"a", "s", "k">>

\* lines 436 and 449: the limit when none is given
DefaultLimit == 10

\* python: s.isdigit(), int(s)
isdigit(s) == s # <<>> /\ \A i \in 1..Len(s) : s[i] \in DigitChars

RECURSIVE int(_)
int(s) ==
    IF s = <<>> THEN 0
    ELSE int(SubSeq(s, 1, Len(s) - 1)) * 10
         + (CHOOSE d \in 0..9 : Digits[d + 1] = s[Len(s)])

\* python: sub in s
contains(s, sub) ==
    \E i \in 1..(Len(s) - Len(sub) + 1) : SubSeq(s, i, i + Len(sub) - 1) = sub

\* lines 474-475
infer_source_type(storage_path) ==
    IF contains(lower(storage_path), github) THEN github
    ELSE IF contains(lower(storage_path), reddit) THEN reddit
    ELSE unknown

\* args[n] if len(args) > n and args[n].isdigit() else otherwise (n counts from 0)
int_arg(args, n, otherwise) ==
    IF Len(args) > n /\ isdigit(args[n + 1]) THEN int(args[n + 1]) ELSE otherwise

\* an invocation that printed nothing but the banner, changed nothing and
\* returned
Quiet(fs, remote) ==
    [out |-> <<>>, raised |-> "", files |-> fs, s3 |-> remote, storage_path |-> <<>>,
     source_type |-> <<>>, query_details |-> <<>>, saved |-> Null, loaded |-> FALSE,
     asked |-> FALSE, invoked |-> FALSE]

\* lines 459-462
fetch_message(storage_path) ==
    IF storage_path # <<>> THEN <<"Fetch complete">>
    ELSE <<"Fetch operation failed or produced no data">>

\* lines 426-462
main_fetch(args, env, clock, client, fs, remote) ==
    IF Len(args) < 3 THEN {[out |-> <<"Usage">>] @@ Quiet(fs, remote)}
    ELSE IF lower(args[2]) = github THEN
        {[out |-> f.out \o fetch_message(f.ret), storage_path |-> f.ret,
          source_type |-> github, query_details |-> args[3], saved |-> f.saved,
          files |-> f.files, s3 |-> f.s3] @@ Quiet(fs, remote) :
            f \in {fetch_github_data(env.connector, args[3], int_arg(args, 3, DefaultLimit),
                                     env.search, clock, client, fs, remote, env)}}
    ELSE IF lower(args[2]) = reddit THEN
        IF Len(args) < 4 THEN {[out |-> <<"Usage">>] @@ Quiet(fs, remote)}
        ELSE
        {[out |-> f.out \o fetch_message(f.ret), storage_path |-> f.ret,
          source_type |-> reddit, query_details |-> args[3] \o <<"_">> \o args[4],
          saved |-> f.saved, files |-> f.files, s3 |-> f.s3] @@ Quiet(fs, remote) :
            f \in {fetch_reddit_data(env.connector, args[3], args[4],
                                     int_arg(args, 4, DefaultLimit), env.search, clock,
                                     client, fs, remote, env)}}
    ELSE {[out |-> <<"Invalid source for fetch">>] @@ Quiet(fs, remote)}

\* lines 464-479
main_analyze(args, env, client, fs, remote) ==
    IF Len(args) < 2 THEN {[out |-> <<"Usage">>] @@ Quiet(fs, remote)}
    ELSE UNION {
        IF empty(df) THEN
            {[out |-> <<"Failed to load data">>, storage_path |-> args[2]] @@ Quiet(fs, remote)}
        ELSE {[storage_path |-> args[2], source_type |-> infer_source_type(args[2]),
               loaded |-> TRUE] @@ a @@ Quiet(fs, remote) :
                a \in analyze_data(df, infer_source_type(args[2]),
                                   IF Len(args) > 2 THEN args[3] ELSE <<>>)} :
        df \in {load_data_from_storage(args[2], client, fs, remote, env.get_ok).frame}}

\* lines 481-517
main_ask(args, env, client, fs, remote) ==
    IF Len(args) < 3 THEN {[out |-> <<"Usage">>] @@ Quiet(fs, remote)}
    ELSE UNION {
        IF empty(df) THEN
            {[out |-> <<"Failed to load data">>, storage_path |-> args[3]] @@ Quiet(fs, remote)}
        ELSE IF ~(int_arg(args, 3, 0) < Len(df.rows)) THEN
            {[out |-> <<"Index out of bounds">>, storage_path |-> args[3], loaded |-> TRUE]
             @@ Quiet(fs, remote)}
        ELSE {[storage_path |-> args[3], loaded |-> TRUE,
               asked |-> (r.raised = "" /\ r.context_text # <<>>)] @@ r @@ Quiet(fs, remote) :
                r \in {ask_entry(args[2], df.rows[int_arg(args, 3, 0) + 1], env.pipeline,
                                 env.result)}} :
        df \in {load_data_from_storage(args[3], client, fs, remote, env.get_ok).frame}}

\* The whole call, lines 407-524, as the set of its outcomes. status is the
\* exit status of the process: main returns None on every path, so it is 0
\* unless an exception leaves main.
main(args, env, clock, client, fs, remote) ==
    {[status |-> IF r.raised = "" THEN 0 ELSE 1] @@ r :
        r \in IF args = <<>> THEN {[out |-> <<"Usage">>] @@ Quiet(fs, remote)}
              ELSE IF lower(args[1]) = fetch THEN main_fetch(args, env, clock, client, fs, remote)
              ELSE IF lower(args[1]) = analyze THEN main_analyze(args, env, client, fs, remote)
              ELSE IF lower(args[1]) = ask THEN main_ask(args, env, client, fs, remote)
              ELSE {[out |-> <<"Unknown command">>] @@ Quiet(fs, remote)}}

----------------------------------------------------------------------------
(* The command line as a state machine: one fetch, analyze, ask or other   *)
(* invocation, or a fetch followed by an analyze or an ask                 *)

\* what the collaborators do during one invocation
NoEnv ==
    [connector |-> FALSE, search |-> [items |-> <<>>, raises |-> FALSE], put_ok |-> FALSE,
     local_env |-> "ok", written |-> 0, get_ok |-> FALSE, pipeline |-> FALSE,
     result |-> Raises]

\* searches that yield at most one item
ShortSearches(items) == {x \in Searches(items) : Len(x.items) <= 1}

GithubArgs == {<<fetch, github, <<"q">>>>, <<fetch, github, <<"q">>, <<"1">>>>}

\* a query that names the other source
RedditArgs == {<<fetch, reddit, <<"s">>, <<"q">>>>, <<fetch, reddit, <<"s">>, github>>}

OtherFetchArgs == {<<fetch>>, <<fetch, reddit, <<"s">>>>, <<fetch, <<"x">>, <<"q">>>>}

\* the state after an invocation that ended as r
Ended(args, r) ==
    /\ files' = r.files
    /\ s3' = r.s3
    /\ run' = [op |-> "main", args |-> args] @@ [k \in DOMAIN r \ {"files", "s3"} |-> r[k]]

\* lines 426-462
MainFetch ==
    /\ run.op = "none"
    /\ \E connector \in BOOLEAN, e \in FetchEnvs(s3_client) :
        \E inp \in {[args |-> a, search |-> x] : a \in GithubArgs, x \in ShortSearches(GithubItems)}
                   \cup {[args |-> a, search |-> x] :
                            a \in RedditArgs, x \in ShortSearches(RedditItems)}
                   \cup {[args |-> a, search |-> NoEnv.search] : a \in OtherFetchArgs} :
        \E r \in main(inp.args, [connector |-> connector, search |-> inp.search] @@ e @@ NoEnv,
                      now, s3_client, files, s3) :
            /\ Ended(inp.args, r)
            /\ hist' = IF r.storage_path # <<>>
                       THEN hist \cup {[ret |-> r.storage_path,
                                        tier |-> IF IsRemoteLocator(r.storage_path)
                                                 THEN "s3" ELSE "local",
                                        source_type |-> r.source_type,
                                        query_details |-> r.query_details,
                                        clock |-> now, data |-> r.saved]}
                       ELSE hist
    /\ UNCHANGED <<text, sanitized, s3_client, now, last, nsaves>>

AfterFetch == run.op = "main" /\ run.args # <<>> /\ run.args[1] = fetch

\* lines 464-479
MainAnalyze ==
    /\ run.op = "none" \/ AfterFetch
    /\ \E args \in {<<analyze>>}
                   \cup {<<analyze, l>> : l \in Locators}
                   \cup {<<analyze, l, t>> : l \in Locators, t \in {<<"z">>, <<"(">>}} :
        \E get_ok \in IF s3_client /\ Len(args) > 1 /\ IsRemoteLocator(args[2])
                      THEN BOOLEAN ELSE {FALSE} :
        \E r \in main(args, [get_ok |-> get_ok] @@ NoEnv, now, s3_client, files, s3) :
            Ended(args, r)
    /\ UNCHANGED <<text, sanitized, s3_client, now, last, hist, nsaves>>

\* lines 481-517
MainAsk ==
    /\ run.op = "none" \/ AfterFetch
    /\ \E args \in {<<ask, <<"q", "?">>>>}
                   \cup {<<ask, <<"q", "?">>, l>> : l \in Locators}
                   \cup {<<ask, <<"q", "?">>, l, <<"1">>>> : l \in Locators} :
        \E get_ok \in IF s3_client /\ Len(args) > 2 /\ IsRemoteLocator(args[3])
                      THEN BOOLEAN ELSE {FALSE} :
        \E pipeline \in BOOLEAN,
           result \in {Raises, Dict(<<Field("score", PyFloat(1)),
                                      Field("answer", PyStr(<<"a">>))>>)} :
        \E r \in main(args, [get_ok |-> get_ok, pipeline |-> pipeline, result |-> result]
                            @@ NoEnv, now, s3_client, files, s3) :
            Ended(args, r)
    /\ UNCHANGED <<text, sanitized, s3_client, now, last, hist, nsaves>>

\* lines 413-422 and 518-520: no command, or one that is not known
MainOther ==
    /\ run.op = "none"
    /\ \E args \in {<<>>, <<<<"x">>>>} :
        \E r \in main(args, NoEnv, now, s3_client, files, s3) :
            Ended(args, r)
    /\ UNCHANGED <<text, sanitized, s3_client, now, last, hist, nsaves>>

MainNext == MainFetch \/ MainAnalyze \/ MainAsk \/ MainOther

MainSpec == FetchInit /\ [][MainNext]_vars

----------------------------------------------------------------------------
(* Claims about the command line (under MainSpec)                          *)

Invoked == run.op = "main"

\* the diagnostics of the user-visible failures
FailureDiagnostics ==
    {"Fetch operation failed or produced no data", "Failed to load data",
     "Index out of bounds", "No suitable text context found", "Unknown command",
     "Invalid source for fetch"}

Failed == Range(run.out) \cap FailureDiagnostics # {}

\* C16 as stated: an invocation that ends in a user-visible failure (the
\* fetch failed or produced no data, the load returned nothing, the index
\* is out of bounds, there is no context, the command or the source is
\* unknown) prints a diagnostic and finishes with a non-zero exit status;
\* an invocation that succeeds finishes with exit status 0.
C16_FailuresExitNonZero ==
    Invoked =>
        /\ Failed => run.status # 0
        /\ (~Failed /\ run.raised = "") => run.status = 0

\* C18 as stated: analyze on a location that a fetch of source type t
\* returned infers source type t from the locator, whatever the query label.
C18_SourceTypeInferred ==
    (Invoked /\ run.args # <<>> /\ run.args[1] = analyze /\ run.loaded) =>
        \A h \in hist : h.ret = run.storage_path => run.source_type = h.source_type

====
